---------------------------- MODULE Spec2Model ----------------------------
(***************************************************************************)
(* Rolling upgrade of a CouchDB cluster (couchdb_upgrade.py).              *)
(*                                                                         *)
(* The upgrader is a single sequential process.  Every action below is one *)
(* remote interaction (an ssh command or an HTTP request) together with    *)
(* the local computation that follows it up to the next remote             *)
(* interaction.  The results of the remote interactions are the inputs of  *)
(* the program; they are drawn from small sets.                            *)
(***************************************************************************)
EXTENDS Integers, Sequences, FiniteSets, TLC

\* Longest node list given on the command line.
MaxNodes == 2
\* The polls of one wait loop that do not end it are counted up to MaxPolls.
MaxPolls == 1

(***************************************************************************)
(* Strings are sequences of tokens.  A run of digits is one "num" token.   *)
(***************************************************************************)
Num(n) == [k |-> "num", v |-> n]
Dot    == [k |-> "dot", v |-> 0]
PreA   == [k |-> "a", v |-> 0]
PreB   == [k |-> "b", v |-> 0]
NL     == [k |-> "nl", v |-> 0]
Junk   == [k |-> "junk", v |-> 0]

V2(a, b)    == <<Num(a), Dot, Num(b)>>
V3(a, b, c) == <<Num(a), Dot, Num(b), Dot, Num(c)>>

\* The string 'latest'.
Latest == <<[k |-> "latest", v |-> 0]>>
\* The empty string.
Empty == <<>>

IsSpace(t) == t.k = "nl" \/ t.k = "sp"

RECURSIVE lstrip(_)
lstrip(s) == IF s # <<>> /\ IsSpace(Head(s)) THEN lstrip(Tail(s)) ELSE s

RECURSIVE rstrip(_)
rstrip(s) ==
    IF s # <<>> /\ IsSpace(s[Len(s)]) THEN rstrip(SubSeq(s, 1, Len(s) - 1)) ELSE s

\* str.strip()
strip(s) == rstrip(lstrip(s))

(***************************************************************************)
(* distutils.version.StrictVersion: the pattern                            *)
(*   ^(\d+)\.(\d+)(\.(\d+))?([ab](\d+))?$                                  *)
(* where $ also matches before one trailing newline.  A string that does   *)
(* not match raises ValueError.                                            *)
(***************************************************************************)
ChopNewline(s) ==
    IF s # <<>> /\ s[Len(s)].k = "nl" THEN SubSeq(s, 1, Len(s) - 1) ELSE s

Kinds(s) == [i \in 1..Len(s) |-> s[i].k]

StrictVersionValid(s) ==
    LET t == ChopNewline(s)
        ks == Kinds(t)
    IN  \/ ks = <<"num", "dot", "num">>
        \/ ks = <<"num", "dot", "num", "dot", "num">>
        \/ ks = <<"num", "dot", "num", "a", "num">>
        \/ ks = <<"num", "dot", "num", "b", "num">>
        \/ ks = <<"num", "dot", "num", "dot", "num", "a", "num">>
        \/ ks = <<"num", "dot", "num", "dot", "num", "b", "num">>

\* The parsed version: (major, minor, patch) and the prerelease, <<>> for
\* none, <<1, n>> for 'a' n and <<2, n>> for 'b' n.
StrictVersion(s) ==
    LET t == ChopNewline(s)
        hasPatch == Len(t) >= 5 /\ t[4].k = "dot"
        preAt == IF hasPatch THEN 6 ELSE 4
    IN  [version |-> <<t[1].v, t[3].v, IF hasPatch THEN t[5].v ELSE 0>>,
         prerelease |-> IF Len(t) > preAt
                        THEN <<IF t[preAt].k = "a" THEN 1 ELSE 2, t[preAt + 1].v>>
                        ELSE <<>>]

RECURSIVE TupleCmp(_, _)
TupleCmp(a, b) ==
    IF a = <<>> /\ b = <<>> THEN 0
    ELSE IF a = <<>> THEN -1
    ELSE IF b = <<>> THEN 1
    ELSE IF Head(a) < Head(b) THEN -1
    ELSE IF Head(a) > Head(b) THEN 1
    ELSE TupleCmp(Tail(a), Tail(b))

\* StrictVersion._cmp / __cmp__
VersionCmp(x, y) ==
    IF x.version # y.version THEN TupleCmp(x.version, y.version)
    ELSE IF x.prerelease = <<>> /\ y.prerelease = <<>> THEN 0
    ELSE IF x.prerelease # <<>> /\ y.prerelease = <<>> THEN -1
    ELSE IF x.prerelease = <<>> /\ y.prerelease # <<>> THEN 1
    ELSE TupleCmp(x.prerelease, y.prerelease)

(***************************************************************************)
(* Node addresses and membership entries are sequences of characters.      *)
(***************************************************************************)
Digits == <<"1", "2", "3", "4", "5", "6", "7", "8", "9">>
Addr(i) == <<"n", Digits[i]>>
Entry(a) == <<"c", "@">> \o a
OtherEntry == <<"c", "@", "m", "0">>

\* Python's `a in b` on strings.
IsSubstring(a, b) ==
    \E i \in 0..(Len(b) - Len(a)) : SubSeq(b, i + 1, i + Len(a)) = a

\* any(node in s for s in entries)
AnyContains(a, entries) ==
    \E i \in DOMAIN entries : IsSubstring(a, entries[i])

(***************************************************************************)
(* Results of the remote interactions.                                     *)
(***************************************************************************)
\* What ssh_command returns. stdout is a sequence of lines; stderr is only
\* written to the error stream.
SshResult(code, out) == [exit_code |-> code, stdout |-> out]

ExitCodes == {0, 1}

\* Results of commands whose output is not read.
PlainResults == {SshResult(c, <<>>) : c \in ExitCodes}

UpgradeStdouts == {<<"Loaded plugins", "Nothing to do">>,
                   <<"Installed:", "Complete!">>}
UpgradeResults ==
    {SshResult(1, <<>>)} \cup {SshResult(0, o) : o \in UpgradeStdouts}

SystemStdouts == {<<"No packages marked for update">>,
                  <<"Updated:", "Complete!">>}
SystemResults ==
    {SshResult(1, <<>>)} \cup {SshResult(0, o) : o \in SystemStdouts}

\* The latest-version probe prints one string.
ProbeResults ==
    {SshResult(1, Empty)}
        \cup {SshResult(0, o) : o \in {V3(1, 10, 0) \o <<NL>>, Empty,
                                       <<Junk, NL>>, V3(0, 0, 0) \o <<NL>>}}

\* An HTTP exchange: a ConnectionError, or a response with a status code and
\* a body that is JSON (data) or not.
ConnectionError ==
    [error |-> "ConnectionError", status_code |-> 0, json |-> FALSE, data |-> <<>>]
Http(code, isJson, d) ==
    [error |-> "", status_code |-> code, json |-> isJson, data |-> d]

NodeVersions == {V3(1, 9, 0), V3(1, 10, 0), V2(2, 0), <<Junk>>}

VersionResponses ==
    {ConnectionError, Http(500, FALSE, <<>>), Http(200, FALSE, <<>>),
     Http(200, TRUE, [couchdb |-> "Welcome"])}
        \cup {Http(200, TRUE, [couchdb |-> "Welcome", version |-> v]) :
                v \in NodeVersions}

MembershipResponses(a) ==
    {ConnectionError, Http(500, FALSE, <<>>), Http(200, FALSE, <<>>),
     Http(200, TRUE, [all_nodes |-> <<Entry(a)>>, cluster_nodes |-> <<>>]),
     Http(200, TRUE, [all_nodes |-> <<OtherEntry, Entry(a)>>,
                      cluster_nodes |-> <<OtherEntry>>]),
     Http(200, TRUE, [cluster_nodes |-> <<Entry(a)>>]),
     Http(200, TRUE, [all_nodes |-> <<OtherEntry, Entry(a)>>,
                      cluster_nodes |-> <<OtherEntry, Entry(a)>>])}

UpResponses ==
    {ConnectionError, Http(500, FALSE, <<>>),
     Http(200, TRUE, [status |-> "ok"]),
     Http(200, TRUE, [status |-> "maintenance_mode"]),
     Http(200, TRUE, [error |-> "unknown"])}

(***************************************************************************)
(* State.                                                                  *)
(***************************************************************************)
VARIABLES
    nodes,                          \* self._nodes
    _version,                       \* self._version
    _upgrade_system,                \* self._upgrade_system
    _reboot,                        \* self._reboot
    _force_reboot,                  \* self._force_reboot
    _service_start_time,            \* self._service_start_time
    _rebooting,                     \* self._rebooting
    _couchdb_upgrades_available,    \* self._couchdb_upgrades_available
    _os_upgrades_available,         \* self._os_upgrades_available
    pc,                             \* the next remote interaction
    node,                           \* position in nodes of the loop variable
    clock,                          \* datetime.datetime.now()
    issued,                         \* per node: the ssh commands and version queries sent to it
    calls,                          \* the current upgrade_node's ssh commands and version query, with results
    polled,                         \* per node: endpoints polled by the wait loops
    waits,                          \* per node: the wait loops that returned
    response,                       \* the last HTTP exchange
    returned,                       \* per node: how upgrade_node ended
    result,                         \* how upgrade() ended
    polls,                          \* polls of the current wait loop so far, counted up to MaxPolls
    upgraded                        \* positions whose upgrade command succeeded in an earlier run of the program

config == <<nodes, _upgrade_system, _reboot, _force_reboot>>
flags == <<_couchdb_upgrades_available, _os_upgrades_available>>
vars == <<nodes, _version, _upgrade_system, _reboot, _force_reboot,
          _service_start_time, _rebooting, _couchdb_upgrades_available,
          _os_upgrades_available, pc, node, clock, issued, calls, polled,
          waits, response, returned, result, polls, upgraded>>

NoResponse == [error |-> "none", status_code |-> 0, json |-> FALSE, data |-> <<>>]

Versions == {Latest, V3(1, 10, 0), Empty}

Init ==
    /\ nodes \in {[i \in 1..n |-> Addr(i)] : n \in 1..MaxNodes}
    /\ _version \in Versions
    /\ _upgrade_system \in BOOLEAN
    /\ _reboot \in BOOLEAN
    /\ _force_reboot \in BOOLEAN
    /\ _service_start_time = -1
    /\ _rebooting = FALSE
    /\ _couchdb_upgrades_available = FALSE
    /\ _os_upgrades_available = FALSE
    /\ pc = "upgrade"
    /\ node = 0
    /\ clock = 0
    /\ issued = [i \in DOMAIN nodes |-> <<>>]
    /\ calls = <<>>
    /\ polled = [i \in DOMAIN nodes |-> {}]
    /\ waits = [i \in DOMAIN nodes |-> <<>>]
    /\ response = NoResponse
    /\ returned = [i \in DOMAIN nodes |-> ""]
    /\ result = "running"
    /\ polls = 0
    /\ upgraded = {}


(***************************************************************************)
(* The methods' computations on the result of their remote interaction.    *)
(***************************************************************************)
\* current_version_lower ends in an exception: requests.get is not guarded,
\* response.json() fails on a body that is not JSON, StrictVersion fails on
\* a malformed version.
current_version_lower_raises(r, ver) ==
    \/ r.error = "ConnectionError"
    \/ /\ r.status_code = 200
       /\ \/ ~r.json
          \/ /\ "version" \in DOMAIN r.data
             /\ ~(StrictVersionValid(r.data.version) /\ StrictVersionValid(ver))

\* current_version_lower with an equal version taken for a lower one.
current_version_lower_or_equal(r, ver) ==
    IF r.status_code = 200
    THEN IF "version" \in DOMAIN r.data
         THEN VersionCmp(StrictVersion(r.data.version), StrictVersion(ver)) <= 0
         ELSE FALSE
    ELSE FALSE

current_version_lower(r, ver) ==
    IF r.status_code = 200
    THEN IF "version" \in DOMAIN r.data
         THEN IF VersionCmp(StrictVersion(r.data.version), StrictVersion(ver)) = 0
              THEN FALSE
              ELSE IF VersionCmp(StrictVersion(r.data.version), StrictVersion(ver)) > 0
              THEN FALSE
              ELSE TRUE
         ELSE FALSE
    ELSE FALSE

\* stop_service with the exit code not tested.
stop_service_unchecked(r) == TRUE

stop_service(r) == IF r.exit_code # 0 THEN FALSE ELSE TRUE

\* upgrade_couchdb with the 'Nothing to do' marker not tested.
upgrade_couchdb_no_marker(r, available) ==
    IF r.exit_code # 0
    THEN [ret |-> FALSE, available |-> available]
    ELSE [ret |-> TRUE, available |-> TRUE]

\* What upgrade_couchdb returns, and the value it leaves in
\* _couchdb_upgrades_available.
upgrade_couchdb(r, available) ==
    IF r.exit_code # 0
    THEN [ret |-> FALSE, available |-> available]
    ELSE [ret |-> TRUE,
          available |-> ~(\E i \in DOMAIN r.stdout : r.stdout[i] = "Nothing to do")]

\* upgrade_system with the flag set on a change and never cleared.
upgrade_system_flag_not_cleared(r, available) ==
    IF r.exit_code # 0
    THEN [ret |-> FALSE, available |-> available]
    ELSE [ret |-> TRUE,
          available |-> available \/ ~(\E i \in DOMAIN r.stdout :
                            r.stdout[i] = "No packages marked for update")]

\* What upgrade_system returns, and the value it leaves in
\* _os_upgrades_available.
upgrade_system(r, available) ==
    IF r.exit_code # 0
    THEN [ret |-> FALSE, available |-> available]
    ELSE [ret |-> TRUE,
          available |-> ~(\E i \in DOMAIN r.stdout :
                            r.stdout[i] = "No packages marked for update")]

\* start_service with the exit code not tested.
start_service_unchecked(r) == TRUE

start_service(r) == IF r.exit_code # 0 THEN FALSE ELSE TRUE

\* reboot with the assignment to _rebooting left out.
reboot_flag_not_set(r) == FALSE

\* The value reboot leaves in _rebooting; the command's result is not read.
reboot(r) == TRUE

get_latest_version_raises(r) ==
    r.exit_code = 0 /\ ~StrictVersionValid(strip(r.stdout))

\* The version, or Empty for False (both are falsy in upgrade()).
get_latest_version(r) ==
    IF r.exit_code # 0 THEN Empty
    ELSE IF VersionCmp(StrictVersion(strip(r.stdout)), StrictVersion(V3(0, 0, 0))) > 0
    THEN strip(r.stdout)
    ELSE Empty

wait_until_joined_raises(r) ==
    r.error = "" /\ r.status_code = 200 /\ ~r.json

\* wait_until_joined with cluster_nodes not looked at.
wait_until_joined_all_nodes_only(r, a) ==
    /\ r.error = ""
    /\ r.status_code = 200
    /\ "all_nodes" \in DOMAIN r.data
    /\ AnyContains(a, r.data.all_nodes)

\* One poll of wait_until_joined ends the loop.
wait_until_joined(r, a) ==
    /\ r.error = ""
    /\ r.status_code = 200
    /\ "all_nodes" \in DOMAIN r.data
    /\ AnyContains(a, r.data.all_nodes)
    /\ "cluster_nodes" \in DOMAIN r.data
    /\ AnyContains(a, r.data.cluster_nodes)

wait_until_status_stable_raises(r) ==
    r.error = "" /\ r.status_code = 200 /\ (~r.json \/ "status" \notin DOMAIN r.data)

\* One poll of wait_until_status_stable ends the loop.
wait_until_status_stable(r) ==
    \/ r.error = "ConnectionError"
    \/ r.status_code = 200 /\ r.data.status = "ok"

\* The up-to-date reboot test with force_reboot left out.
RebootUpToDate_no_force(os_available) == _reboot /\ os_available

\* The up-to-date reboot test with the OS-upgrade signal left out.
RebootUpToDate_any_reboot(os_available) == _force_reboot \/ _reboot

\* upgrade_node, up-to-date branch: reboot, or else return True.
RebootUpToDate(os_available) ==
    _force_reboot \/ (_reboot /\ os_available)

\* The upgrade-branch reboot test with the CouchDB signal left out.
RebootUpgraded_os_only(couchdb_available, os_available) ==
    _force_reboot \/ (_reboot /\ os_available)

\* upgrade_node, upgrade branch: reboot before starting the service.
RebootUpgraded(couchdb_available, os_available) ==
    _force_reboot \/ (_reboot /\ (couchdb_available \/ os_available))

\* __main__ with the exit(1) left out.
ProcessExitCode_always_zero == IF result = "True" THEN 0 ELSE 0

\* __main__: the exit code of the process once upgrade() has ended; an
\* uncaught exception ends the interpreter with 1.
ProcessExitCode == IF result = "True" THEN 0 ELSE 1

(***************************************************************************)
(* Control: where the process continues after a remote interaction.  reb   *)
(* and sst are the values of _rebooting and _service_start_time at that    *)
(* point.                                                                  *)
(***************************************************************************)
Goto(p, reb, sst) ==
    /\ pc' = p
    /\ _rebooting' = reb
    /\ _service_start_time' = sst
    /\ UNCHANGED <<node, returned, result>>

\* upgrade_node returns True: back to the for loop of upgrade().
ReturnTrue(reb, sst) ==
    /\ returned' = [returned EXCEPT ![node] = "True"]
    /\ pc' = "upgrade_node"
    /\ _rebooting' = reb
    /\ _service_start_time' = sst
    /\ UNCHANGED <<node, result>>

\* upgrade() with the result of upgrade_node not tested: the loop goes on.
ReturnFalse_loop_goes_on(reb, sst) ==
    /\ returned' = [returned EXCEPT ![node] = "False"]
    /\ pc' = "upgrade_node"
    /\ _rebooting' = reb
    /\ _service_start_time' = sst
    /\ UNCHANGED <<node, result>>

\* upgrade_node returns False, and so does upgrade().
ReturnFalse(reb, sst) ==
    /\ returned' = [returned EXCEPT ![node] = "False"]
    /\ result' = "False"
    /\ pc' = "done"
    /\ _rebooting' = reb
    /\ _service_start_time' = sst
    /\ UNCHANGED node

\* An exception leaves upgrade_node and upgrade(); nothing catches it.
Raise(reb, sst) ==
    /\ returned' = [returned EXCEPT ![node] = "raised"]
    /\ result' = "raised"
    /\ pc' = "done"
    /\ _rebooting' = reb
    /\ _service_start_time' = sst
    /\ UNCHANGED node

\* A command or version query to the current node, and its result.
Call(c, r) ==
    /\ issued' = [issued EXCEPT ![node] = Append(@, c)]
    /\ calls' = Append(calls, [cmd |-> c, res |-> r])

(***************************************************************************)
(* Actions.                                                                *)
(***************************************************************************)
\* upgrade() with the test for 'latest' left out.
Upgrade_no_probe ==
    /\ pc = "upgrade"
    /\ pc' = "upgrade_node"
    /\ UNCHANGED <<config, upgraded, _version, flags, _rebooting,
                   _service_start_time, node, clock, issued, calls, polled,
                   waits, response, returned, result, polls>>

\* upgrade(), up to its first remote interaction.
Upgrade ==
    /\ pc = "upgrade"
    /\ pc' = IF _version = Latest THEN "get_latest_version" ELSE "upgrade_node"
    /\ UNCHANGED <<config, upgraded, _version, flags, _rebooting, _service_start_time, node,
                   clock, issued, calls, polled, waits, response, returned,
                   result, polls>>

\* upgrade(): the latest-version probe on the first node.
GetLatestVersion ==
    /\ pc = "get_latest_version"
    /\ \E r \in ProbeResults :
        /\ issued' = [issued EXCEPT ![1] = Append(@, "latest_version_command")]
        /\ calls' = Append(calls, [cmd |-> "latest_version_command", res |-> r])
        /\ IF get_latest_version_raises(r)
           THEN /\ result' = "raised"
                /\ pc' = "done"
                /\ UNCHANGED _version
           ELSE IF get_latest_version(r) # Empty
           THEN /\ _version' = get_latest_version(r)
                /\ pc' = "upgrade_node"
                /\ UNCHANGED result
           ELSE /\ result' = "False"
                /\ pc' = "done"
                /\ UNCHANGED _version
    /\ UNCHANGED <<config, upgraded, flags, _rebooting, _service_start_time, node, clock,
                   polled, waits, response, returned, polls>>

\* upgrade(): the for loop takes the next node, or ends with True; then the
\* head of upgrade_node up to its first remote interaction.
UpgradeNode ==
    /\ pc = "upgrade_node"
    /\ IF node + 1 <= Len(nodes)
       THEN /\ node' = node + 1
            /\ _service_start_time' = clock
            /\ clock' = clock + 1
            /\ _rebooting' = FALSE
            /\ calls' = <<>>
            /\ pc' = IF _version # Empty THEN "current_version_lower"
                     ELSE "stop_service"
            /\ UNCHANGED result
       ELSE /\ pc' = "done"
            /\ result' = "True"
            /\ UNCHANGED <<node, _service_start_time, clock, _rebooting, calls>>
    /\ UNCHANGED <<config, upgraded, _version, flags, issued, polled, waits, response,
                   returned, polls>>

\* upgrade_node, up-to-date branch after the optional OS upgrade.
UpToDateTail(os_available) ==
    IF RebootUpToDate(os_available)
    THEN Goto("reboot_418", _rebooting, _service_start_time)
    ELSE ReturnTrue(_rebooting, _service_start_time)

\* upgrade_node: the version query and the branch it selects.
CurrentVersionLower ==
    /\ pc = "current_version_lower"
    /\ \E r \in VersionResponses :
        /\ response' = r
        /\ Call("GET /", r)
        /\ IF current_version_lower_raises(r, _version)
           THEN Raise(_rebooting, _service_start_time)
           ELSE IF ~current_version_lower(r, _version)
           THEN IF _upgrade_system
                THEN Goto("upgrade_system_410", _rebooting, _service_start_time)
                ELSE UpToDateTail(_os_upgrades_available)
           ELSE IF ~_rebooting
           THEN Goto("stop_service", _rebooting, _service_start_time)
           ELSE Goto("wait_until_joined", _rebooting, _service_start_time)
    /\ UNCHANGED <<config, upgraded, _version, flags, clock, polled, waits, polls>>

\* upgrade_node, up-to-date branch: the OS upgrade.
UpgradeSystemUpToDate ==
    /\ pc = "upgrade_system_410"
    /\ \E r \in SystemResults :
        LET u == upgrade_system(r, _os_upgrades_available) IN
        /\ Call("upgrade_system_command", r)
        /\ _os_upgrades_available' = u.available
        /\ IF ~u.ret
           THEN ReturnFalse(_rebooting, _service_start_time)
           ELSE UpToDateTail(u.available)
    /\ UNCHANGED <<config, upgraded, _version, _couchdb_upgrades_available, clock, polled,
                   waits, response, polls>>

\* upgrade_node, up-to-date branch, returning right after the reboot.
RebootUpToDateNode_no_wait ==
    /\ pc = "reboot_418"
    /\ \E r \in PlainResults :
        /\ Call("reboot", r)
        /\ ReturnTrue(reboot(r), _service_start_time)
    /\ UNCHANGED <<config, upgraded, _version, flags, clock, polled, waits,
                   response, polls>>

\* upgrade_node, up-to-date branch: the reboot, then the test of _rebooting
\* that guards the stop/upgrade/start block.
RebootUpToDateNode ==
    /\ pc = "reboot_418"
    /\ \E r \in PlainResults :
        /\ Call("reboot", r)
        /\ IF ~reboot(r)
           THEN Goto("stop_service", reboot(r), _service_start_time)
           ELSE Goto("wait_until_joined", reboot(r), _service_start_time)
    /\ UNCHANGED <<config, upgraded, _version, flags, clock, polled, waits, response,
                   polls>>

\* upgrade_node with a failed stop tried once more.
StopService_retried ==
    /\ pc = "stop_service"
    /\ \E r \in PlainResults :
        /\ Call("service_stop_command", r)
        /\ IF ~stop_service(r)
           THEN IF \A i \in DOMAIN calls : calls[i].cmd # "service_stop_command"
                THEN Goto("stop_service", _rebooting, _service_start_time)
                ELSE ReturnFalse(_rebooting, _service_start_time)
           ELSE Goto("upgrade_couchdb", _rebooting, _service_start_time)
    /\ UNCHANGED <<config, upgraded, _version, flags, clock, polled, waits,
                   response, polls>>

\* upgrade_node: stop the CouchDB service.
StopService ==
    /\ pc = "stop_service"
    /\ \E r \in PlainResults :
        /\ Call("service_stop_command", r)
        /\ IF ~stop_service(r)
           THEN ReturnFalse(_rebooting, _service_start_time)
           ELSE Goto("upgrade_couchdb", _rebooting, _service_start_time)
    /\ UNCHANGED <<config, upgraded, _version, flags, clock, polled, waits, response,
                   polls>>

\* upgrade_node, after the CouchDB and OS upgrades: reboot or start.
UpgradedTail(couchdb_available, os_available) ==
    IF RebootUpgraded(couchdb_available, os_available)
    THEN Goto("reboot_446", _rebooting, _service_start_time)
    ELSE IF ~_rebooting
    THEN Goto("start_service", _rebooting, _service_start_time)
    ELSE Goto("wait_until_joined", _rebooting, _service_start_time)

\* upgrade_node: upgrade the CouchDB software.
UpgradeCouchdb ==
    /\ pc = "upgrade_couchdb"
    /\ \E r \in UpgradeResults :
        LET u == upgrade_couchdb(r, _couchdb_upgrades_available) IN
        /\ Call("upgrade_command", r)
        /\ _couchdb_upgrades_available' = u.available
        /\ IF ~u.ret
           THEN ReturnFalse(_rebooting, _service_start_time)
           ELSE IF _upgrade_system
           THEN Goto("upgrade_system_437", _rebooting, _service_start_time)
           ELSE UpgradedTail(u.available, _os_upgrades_available)
    /\ UNCHANGED <<config, upgraded, _version, _os_upgrades_available, clock, polled,
                   waits, response, polls>>

\* upgrade_node, upgrade branch: the OS upgrade.
UpgradeSystemUpgraded ==
    /\ pc = "upgrade_system_437"
    /\ \E r \in SystemResults :
        LET u == upgrade_system(r, _os_upgrades_available) IN
        /\ Call("upgrade_system_command", r)
        /\ _os_upgrades_available' = u.available
        /\ IF ~u.ret
           THEN ReturnFalse(_rebooting, _service_start_time)
           ELSE UpgradedTail(_couchdb_upgrades_available, u.available)
    /\ UNCHANGED <<config, upgraded, _version, _couchdb_upgrades_available, clock, polled,
                   waits, response, polls>>

\* upgrade_node, upgrade branch: the reboot, then the test of _rebooting
\* that guards the start.
RebootUpgradedNode ==
    /\ pc = "reboot_446"
    /\ \E r \in PlainResults :
        /\ Call("reboot", r)
        /\ IF ~reboot(r)
           THEN Goto("start_service", reboot(r), _service_start_time)
           ELSE Goto("wait_until_joined", reboot(r), _service_start_time)
    /\ UNCHANGED <<config, upgraded, _version, flags, clock, polled, waits, response,
                   polls>>

\* upgrade_node with the two waits left out after a start.
StartService_no_wait ==
    /\ pc = "start_service"
    /\ \E r \in PlainResults :
        /\ Call("service_start_command", r)
        /\ clock' = clock + 1
        /\ IF ~start_service(r)
           THEN ReturnFalse(_rebooting, clock)
           ELSE ReturnTrue(_rebooting, clock)
    /\ UNCHANGED <<config, upgraded, _version, flags, polled, waits, response, polls>>

\* upgrade_node: start the CouchDB service; start_service reads the clock
\* before it issues the command.
StartService ==
    /\ pc = "start_service"
    /\ \E r \in PlainResults :
        /\ Call("service_start_command", r)
        /\ clock' = clock + 1
        /\ IF ~start_service(r)
           THEN ReturnFalse(_rebooting, clock)
           ELSE Goto("wait_until_joined", _rebooting, clock)
    /\ UNCHANGED <<config, upgraded, _version, flags, polled, waits, response, polls>>

\* wait_until_joined with a retry bound: it gives up after MaxPolls polls.
WaitUntilJoined_gives_up ==
    /\ pc = "wait_until_joined"
    /\ \E r \in MembershipResponses(nodes[node]) :
        /\ response' = r
        /\ polled' = [polled EXCEPT ![node] = @ \cup {"_membership"}]
        /\ IF wait_until_joined_raises(r)
           THEN /\ Raise(_rebooting, _service_start_time)
                /\ UNCHANGED <<waits, polls>>
           ELSE IF wait_until_joined(r, nodes[node])
           THEN /\ waits' = [waits EXCEPT ![node] = Append(@, "wait_until_joined")]
                /\ polls' = 0
                /\ Goto("wait_until_status_stable", _rebooting, _service_start_time)
           ELSE IF polls < MaxPolls
           THEN /\ polls' = polls + 1
                /\ Goto("wait_until_joined", _rebooting, _service_start_time)
                /\ UNCHANGED waits
           ELSE /\ ReturnFalse(_rebooting, _service_start_time)
                /\ UNCHANGED <<waits, polls>>
    /\ UNCHANGED <<config, upgraded, _version, flags, clock, issued, calls>>

\* One poll of wait_until_joined.
WaitUntilJoined ==
    /\ pc = "wait_until_joined"
    /\ \E r \in MembershipResponses(nodes[node]) :
        /\ response' = r
        /\ polled' = [polled EXCEPT ![node] = @ \cup {"_membership"}]
        /\ IF wait_until_joined_raises(r)
           THEN /\ Raise(_rebooting, _service_start_time)
                /\ UNCHANGED <<waits, polls>>
           ELSE IF wait_until_joined(r, nodes[node])
           THEN /\ waits' = [waits EXCEPT ![node] = Append(@, "wait_until_joined")]
                /\ polls' = 0
                /\ Goto("wait_until_status_stable", _rebooting, _service_start_time)
           ELSE /\ polls' = IF polls < MaxPolls THEN polls + 1 ELSE polls
                /\ Goto("wait_until_joined", _rebooting, _service_start_time)
                /\ UNCHANGED waits
    /\ UNCHANGED <<config, upgraded, _version, flags, clock, issued, calls>>

\* One poll of wait_until_status_stable; when it ends the loop upgrade_node
\* returns True.
WaitUntilStatusStable ==
    /\ pc = "wait_until_status_stable"
    /\ \E r \in UpResponses :
        /\ response' = r
        /\ polled' = [polled EXCEPT ![node] = @ \cup {"_up"}]
        /\ IF wait_until_status_stable_raises(r)
           THEN /\ Raise(_rebooting, _service_start_time)
                /\ UNCHANGED <<waits, polls>>
           ELSE IF wait_until_status_stable(r)
           THEN /\ waits' = [waits EXCEPT ![node] =
                                Append(@, "wait_until_status_stable")]
                /\ polls' = 0
                /\ ReturnTrue(_rebooting, _service_start_time)
           ELSE /\ polls' = IF polls < MaxPolls THEN polls + 1 ELSE polls
                /\ Goto("wait_until_status_stable", _rebooting,
                        _service_start_time)
                /\ UNCHANGED waits
    /\ UNCHANGED <<config, upgraded, _version, flags, clock, issued, calls>>

Next ==
    \/ Upgrade
    \/ GetLatestVersion
    \/ UpgradeNode
    \/ CurrentVersionLower
    \/ UpgradeSystemUpToDate
    \/ RebootUpToDateNode
    \/ StopService
    \/ UpgradeCouchdb
    \/ UpgradeSystemUpgraded
    \/ RebootUpgradedNode
    \/ StartService
    \/ WaitUntilJoined
    \/ WaitUntilStatusStable

Spec == Init /\ [][Next]_vars

\* The run under the assumptions of termination: every remote command and
\* HTTP request returns, so the program takes its next step; and a node that
\* is polled again and again eventually answers the membership poll with
\* itself listed and the health poll with 'ok' or a connection error.
JoinedPoll ==
    /\ WaitUntilJoined
    /\ ~wait_until_joined_raises(response')
    /\ wait_until_joined(response', nodes[node])

StablePoll ==
    /\ WaitUntilStatusStable
    /\ ~wait_until_status_stable_raises(response')
    /\ wait_until_status_stable(response')

\* The run when every remote command and HTTP request returns, with nothing
\* assumed of what the polled nodes answer.
ReturningSpec == Init /\ [][Next]_vars /\ WF_vars(Next)

FairSpec ==
    /\ Init
    /\ [][Next]_vars
    /\ WF_vars(Next)
    /\ SF_vars(JoinedPoll)
    /\ SF_vars(StablePoll)

\* __main__ once more, after a run that ended in failure: a new
\* CouchDbUpgrader with the same nodes, flags and target, and upgrade() from
\* its start.  The nodes keep what the earlier run installed on them.
Rerun ==
    /\ pc = "done"
    /\ result \in {"False", "raised"}
    /\ upgraded' = upgraded
          \cup {n \in 1..(node - 1) :
                  \E i \in DOMAIN issued[n] : issued[n][i] = "upgrade_command"}
          \cup {n \in {node} \ {0} :
                  \E i \in DOMAIN calls : /\ calls[i].cmd = "upgrade_command"
                                          /\ calls[i].res.exit_code = 0}
    /\ _service_start_time' = -1
    /\ _rebooting' = FALSE
    /\ _couchdb_upgrades_available' = FALSE
    /\ _os_upgrades_available' = FALSE
    /\ pc' = "upgrade"
    /\ node' = 0
    /\ clock' = 0
    /\ issued' = [i \in DOMAIN nodes |-> <<>>]
    /\ calls' = <<>>
    /\ polled' = [i \in DOMAIN nodes |-> {}]
    /\ waits' = [i \in DOMAIN nodes |-> <<>>]
    /\ response' = NoResponse
    /\ returned' = [i \in DOMAIN nodes |-> ""]
    /\ result' = "running"
    /\ polls' = 0
    /\ UNCHANGED <<config, _version>>

RerunNext == Next \/ Rerun

RerunSpec == Init /\ [][RerunNext]_vars

TypeOK ==
    /\ pc \in {"upgrade", "get_latest_version", "upgrade_node",
               "current_version_lower", "upgrade_system_410", "reboot_418",
               "stop_service", "upgrade_couchdb", "upgrade_system_437",
               "reboot_446", "start_service", "wait_until_joined",
               "wait_until_status_stable", "done"}
    /\ node \in 0..Len(nodes)
    /\ result \in {"running", "True", "False", "raised"}
    /\ \A i \in DOMAIN nodes : returned[i] \in {"", "True", "False", "raised"}
    /\ polls \in 0..MaxPolls
    /\ upgraded \subseteq DOMAIN nodes
    /\ (pc = "done") = (result # "running")

(***************************************************************************)
(* Vocabulary of the properties.                                           *)
(***************************************************************************)
Issued(n, c) == \E i \in DOMAIN issued[n] : issued[n][i] = c

\* Some remote command or HTTP query was sent to the node at position n.
Contacted(n) == issued[n] # <<>> \/ polled[n] # {}

\* The positions in calls of the command c to the current node.
CallsOf(c) == {i \in DOMAIN calls : calls[i].cmd = c}
Called(c) == CallsOf(c) # {}
Succeeded(c) == \E i \in CallsOf(c) : calls[i].res.exit_code = 0
SucceededBefore(c, j) == \E i \in CallsOf(c) : i < j /\ calls[i].res.exit_code = 0

\* The current node answered the version query of this upgrade_node.
HasVersionCall == calls # <<>> /\ calls[1].cmd = "GET /"
ReadableVersion(r) ==
    /\ r.error = ""
    /\ r.status_code = 200
    /\ r.json
    /\ "version" \in DOMAIN r.data
    /\ StrictVersionValid(r.data.version)
ReportedCmp == VersionCmp(StrictVersion(calls[1].res.data.version),
                          StrictVersion(_version))
ReportedLower ==
    HasVersionCall /\ ReadableVersion(calls[1].res)
        /\ StrictVersionValid(_version) /\ ReportedCmp < 0
ReportedNotLower ==
    HasVersionCall /\ ReadableVersion(calls[1].res)
        /\ StrictVersionValid(_version) /\ ReportedCmp >= 0
\* The version query returned a non-200 status or a body without a version.
Unreadable ==
    /\ HasVersionCall
    /\ calls[1].res.error = ""
    /\ \/ calls[1].res.status_code # 200
       \/ calls[1].res.json /\ "version" \notin DOMAIN calls[1].res.data

BothWaits == <<"wait_until_joined", "wait_until_status_stable">>

\* Between the first stop or reboot command and the end of the stability wait.
MidUpgrade(n) ==
    /\ Issued(n, "service_stop_command") \/ Issued(n, "reboot")
    /\ waits[n] # BothWaits

(***************************************************************************)
(* C1. Nodes are handled in list order, one at a time: nothing is sent to  *)
(* a node before upgrade_node has returned for every node before it; a     *)
(* node that was started or rebooted returns only after wait_until_joined  *)
(* and then wait_until_status_stable returned; at most one node is between *)
(* its first stop/reboot and the end of its stability wait.                *)
(***************************************************************************)
C1_OneNodeAtATime ==
    /\ \A n \in DOMAIN nodes :
          Contacted(n) => \A m \in 1..(n - 1) : returned[m] # ""
    /\ \A n \in DOMAIN nodes :
          (/\ returned[n] = "True"
           /\ Issued(n, "service_start_command") \/ Issued(n, "reboot"))
              => waits[n] = BothWaits
    /\ \A n \in DOMAIN nodes :
          \A i \in DOMAIN waits[n] : waits[n][i] = BothWaits[i]
    /\ Cardinality({n \in DOMAIN nodes : MidUpgrade(n)}) <= 1

C1_Witness ==
    /\ Len(nodes) >= 2
    /\ returned[1] = "True"
    /\ Issued(1, "service_start_command")
    /\ waits[1] = BothWaits
    /\ Issued(2, "service_stop_command")

(***************************************************************************)
(* C2. The rollout aborts on the first node failure: once upgrade_node has *)
(* returned False for the node at position k, upgrade() has returned False *)
(* and nothing is ever sent to a node after k.                             *)
(***************************************************************************)
C2_AbortOnFirstFailure ==
    \A k \in DOMAIN nodes :
        returned[k] = "False" =>
            /\ result = "False"
            /\ pc = "done"
            /\ \A n \in (k + 1)..Len(nodes) : ~Contacted(n)

C2_Witness ==
    /\ Len(nodes) >= 2
    /\ returned[1] = "True"
    /\ returned[2] = "False"
    /\ calls[Len(calls)].cmd = "service_stop_command"

(***************************************************************************)
(* C3. A node that reports a version equal to or greater than the target   *)
(* is sent none of the stop-service, CouchDB-upgrade and start-service     *)
(* commands, whatever upgrade_system, reboot and force_reboot are.         *)
(***************************************************************************)
C3_UpToDateNeverStopped ==
    ReportedNotLower =>
        /\ ~Issued(node, "service_stop_command")
        /\ ~Issued(node, "upgrade_command")
        /\ ~Issued(node, "service_start_command")

C3_Witness ==
    /\ ReportedNotLower
    /\ ReportedCmp > 0
    /\ Issued(node, "upgrade_system_command")
    /\ Issued(node, "reboot")
    /\ returned[node] = "True"

(***************************************************************************)
(* C4 as stated. A node that reports a version lower than the target is    *)
(* stopped, upgraded and started in that order, and when stop, upgrade and *)
(* (when enabled) the OS upgrade all succeed the start-service command is  *)
(* in fact issued.                                                         *)
(***************************************************************************)
AllUpgradeStepsSucceeded ==
    /\ Succeeded("service_stop_command")
    /\ Succeeded("upgrade_command")
    /\ _upgrade_system => Succeeded("upgrade_system_command")

C4_Order ==
    /\ Len(calls) >= 2 => calls[2].cmd = "service_stop_command"
    /\ \A j \in CallsOf("upgrade_command") :
          SucceededBefore("service_stop_command", j)
    /\ \A j \in CallsOf("service_start_command") :
          /\ SucceededBefore("upgrade_command", j)
          /\ _upgrade_system => SucceededBefore("upgrade_system_command", j)

C4_StartAlwaysIssued ==
    ReportedLower =>
        /\ C4_Order
        /\ (AllUpgradeStepsSucceeded /\ returned[node] = "True")
              => Called("service_start_command")

(***************************************************************************)
(* C4 amended. The order holds as stated; when stop, upgrade and (when     *)
(* enabled) the OS upgrade all succeed, the start-service command is       *)
(* issued unless the node is rebooted instead.                             *)
(***************************************************************************)
C4_StopUpgradeStart ==
    ReportedLower =>
        /\ C4_Order
        /\ (AllUpgradeStepsSucceeded /\ returned[node] = "True")
              => (Called("service_start_command") \/ Called("reboot"))
        /\ ~(Called("service_start_command") /\ Called("reboot"))

C4_Witness ==
    /\ ReportedLower
    /\ _upgrade_system
    /\ Succeeded("service_start_command")
    /\ returned[node] = "True"

(***************************************************************************)
(* C5 as stated. For a node with a version lower than the target, when the *)
(* stdout of the CouchDB-upgrade command has the marker 'Nothing to do',   *)
(* no reboot command is issued to the node, even with reboot-on-upgrade    *)
(* enabled.  The statement is taken with force_reboot off, the reading     *)
(* most favourable to it.                                                  *)
(***************************************************************************)
UpgradeWasNoop ==
    \E i \in CallsOf("upgrade_command") :
        /\ calls[i].res.exit_code = 0
        /\ \E l \in DOMAIN calls[i].res.stdout :
              calls[i].res.stdout[l] = "Nothing to do"

SystemUpgradeChanged ==
    \E i \in CallsOf("upgrade_system_command") :
        /\ calls[i].res.exit_code = 0
        /\ \A l \in DOMAIN calls[i].res.stdout :
              calls[i].res.stdout[l] # "No packages marked for update"

C5_NoopNeverReboots ==
    (ReportedLower /\ UpgradeWasNoop /\ ~_force_reboot)
        => ~Issued(node, "reboot")

(***************************************************************************)
(* C5 amended. For such a node no reboot command is issued, even with      *)
(* reboot-on-upgrade enabled, unless force_reboot is set or the OS upgrade *)
(* run on that node changed something.                                     *)
(***************************************************************************)
C5_NoopRebootsOnlyForOsOrForce ==
    (ReportedLower /\ UpgradeWasNoop /\ ~_force_reboot /\ ~SystemUpgradeChanged)
        => ~Issued(node, "reboot")

C5_Witness ==
    /\ ReportedLower
    /\ UpgradeWasNoop
    /\ _reboot
    /\ _upgrade_system
    /\ ~_force_reboot
    /\ ~SystemUpgradeChanged
    /\ Succeeded("service_start_command")

(***************************************************************************)
(* C6 as stated. With force_reboot set, a reboot command is issued to      *)
(* every node the rollout has processed.                                   *)
(***************************************************************************)
C6_ForceRebootEveryNode ==
    _force_reboot =>
        \A n \in DOMAIN nodes :
            returned[n] \in {"True", "False"} => Issued(n, "reboot")

(***************************************************************************)
(* C6 amended. With force_reboot set, a reboot command is issued to every  *)
(* node for which upgrade_node returns True, whether the node was up to    *)
(* date or not and whether the upgrades were no-ops or not; a node on      *)
(* which an earlier step fails is not rebooted.                            *)
(***************************************************************************)
C6_ForceRebootEveryCompletedNode ==
    _force_reboot =>
        /\ \A n \in DOMAIN nodes : returned[n] = "True" => Issued(n, "reboot")
        /\ pc \in {"wait_until_joined", "wait_until_status_stable"}
              => Issued(node, "reboot")

C6_Witness ==
    /\ _force_reboot
    /\ ~_reboot
    /\ ReportedNotLower
    /\ ~Issued(node, "upgrade_system_command")
    /\ Issued(node, "reboot")
    /\ returned[node] = "True"

(***************************************************************************)
(* C7. With the target 'latest', when the latest-version probe fails (a    *)
(* non-zero exit status, or an output that is empty, malformed or not a    *)
(* version greater than 0.0.0), upgrade() ends with a reported failure     *)
(* (it returns False) and nothing else has been sent to any node.          *)
(***************************************************************************)
ProbeFailed(r) ==
    IF r.exit_code # 0 THEN TRUE
    ELSE IF ~StrictVersionValid(strip(r.stdout)) THEN TRUE
    ELSE VersionCmp(StrictVersion(strip(r.stdout)),
                    StrictVersion(V3(0, 0, 0))) <= 0

OnlyProbeIssued ==
    \A n \in DOMAIN nodes :
        /\ polled[n] = {}
        /\ \A i \in DOMAIN issued[n] : issued[n][i] = "latest_version_command"

C7_ProbeFailureReported ==
    \A i \in CallsOf("latest_version_command") :
        ProbeFailed(calls[i].res) => (result = "False" /\ OnlyProbeIssued)

(***************************************************************************)
(* C8. A node whose version query returns a non-200 status or a body       *)
(* without a version field is not taken as up to date: upgrade_node does   *)
(* not return True for it, and no stop or upgrade command is sent to it.   *)
(***************************************************************************)
C8_UnreadableNotUpToDate ==
    Unreadable =>
        /\ returned[node] # "True"
        /\ ~Issued(node, "service_stop_command")
        /\ ~Issued(node, "upgrade_command")

(***************************************************************************)
(* C9 as stated. Each of stop, CouchDB upgrade, OS upgrade, reboot and     *)
(* start whose command returns a non-zero exit status makes upgrade_node   *)
(* return False with no further step on the node.                          *)
(***************************************************************************)
StepFails(i, steps) == calls[i].cmd \in steps /\ calls[i].res.exit_code # 0

NodeFailedAt(i) ==
    /\ i = Len(calls)
    /\ returned[node] = "False"
    /\ polled[node] = {}

C9_EveryFailedStepFails ==
    \A i \in DOMAIN calls :
        StepFails(i, {"service_stop_command", "upgrade_command",
                      "upgrade_system_command", "reboot",
                      "service_start_command"})
            => NodeFailedAt(i)

(***************************************************************************)
(* C9 amended. Each of stop, CouchDB upgrade, OS upgrade and start whose   *)
(* command returns a non-zero exit status makes upgrade_node return False  *)
(* with no further step on the node; the exit status of the reboot command *)
(* is not read, and after it upgrade_node does not return False.           *)
(***************************************************************************)
C9_FailedStepFailsExceptReboot ==
    \A i \in DOMAIN calls :
        /\ StepFails(i, {"service_stop_command", "upgrade_command",
                         "upgrade_system_command", "service_start_command"})
              => NodeFailedAt(i)
        /\ calls[i].cmd = "reboot" =>
              /\ i = Len(calls)
              /\ returned[node] # "False"
              /\ pc \in {"wait_until_joined", "wait_until_status_stable",
                         "upgrade_node", "done"}

C9_Witness ==
    /\ ReportedLower
    /\ Len(calls) = 5
    /\ StepFails(5, {"service_start_command"})
    /\ NodeFailedAt(5)

(***************************************************************************)
(* C10. upgrade() returns True, and the process exits with 0, only if      *)
(* upgrade_node returned True for every node of the list, skipped nodes    *)
(* included; if upgrade_node returns False for a node, upgrade() returns   *)
(* False and the process exits with 1.                                     *)
(***************************************************************************)
C10_SuccessOnlyIfAllNodes ==
    /\ result = "True" =>
          /\ \A n \in DOMAIN nodes : returned[n] = "True"
          /\ ProcessExitCode = 0
    /\ (\E n \in DOMAIN nodes : returned[n] = "False") =>
          /\ result = "False"
          /\ ProcessExitCode = 1
    /\ (pc = "done" /\ ProcessExitCode = 0) => result = "True"

C10_Witness ==
    /\ result = "True"
    /\ Len(nodes) >= 2
    /\ ~Contacted(1) \/ issued[1] = <<"GET /">>
    /\ Issued(2, "service_start_command")

(***************************************************************************)
(* C11. A node that reports a version equal to or higher than the target,  *)
(* with upgrade_system off, is skipped entirely: the version query is the  *)
(* only thing sent to it, no stop, upgrade, start or reboot command is     *)
(* issued, neither wait runs, and upgrade_node has returned True.  As      *)
(* stated, for every setting of force_reboot.                              *)
(***************************************************************************)
Skipped ==
    /\ issued[node] \in {<<"GET /">>, <<"latest_version_command", "GET /">>}
    /\ Len(calls) = 1
    /\ polled[node] = {}
    /\ waits[node] = <<>>
    /\ returned[node] = "True"
    /\ pc \in {"upgrade_node", "done"}

C11_UpToDateSkippedEntirely ==
    (ReportedNotLower /\ ~_upgrade_system) => Skipped

(***************************************************************************)
(* C11, amended: the same, when force_reboot is off as well.               *)
(***************************************************************************)
C11_UpToDateSkippedUnlessForced ==
    (ReportedNotLower /\ ~_upgrade_system /\ ~_force_reboot) => Skipped

C11_Witness ==
    /\ ReportedNotLower
    /\ ~_upgrade_system
    /\ ~_force_reboot
    /\ _reboot
    /\ Skipped
    /\ node = 1
    /\ Len(nodes) >= 2
    /\ pc = "upgrade_node"

(***************************************************************************)
(* C12. For a node whose service was started, the stability wait runs the  *)
(* check_stable_command on the node, carrying the time read by             *)
(* start_service: once wait_until_status_stable has run for the node, that *)
(* command has been issued to it.                                          *)
(***************************************************************************)
C12_StableCommandCarriesStartTime ==
    \A n \in DOMAIN nodes :
        (/\ Issued(n, "service_start_command")
         /\ \E i \in DOMAIN waits[n] : waits[n][i] = "wait_until_status_stable")
            => Issued(n, "check_stable_command")

(***************************************************************************)
(* C13. In a run of the program that follows a failed run with the same    *)
(* target, a node that the earlier run upgraded and that now reports the   *)
(* target version or a higher one gets no stop, upgrade or start command;  *)
(* and in every run with a target, a node gets a stop, upgrade or start    *)
(* command only if it reported a version lower than the target.            *)
(***************************************************************************)
UpgradePathCommands ==
    {"service_stop_command", "upgrade_command", "service_start_command"}

C13_RerunSkipsUpgradedNodes ==
    /\ (node \in upgraded /\ ReportedNotLower) =>
          \A c \in UpgradePathCommands : ~Issued(node, c)
    /\ (_version # Empty /\ \E c \in UpgradePathCommands : Called(c)) =>
          ReportedLower

C13_Witness ==
    /\ Len(nodes) >= 2
    /\ upgraded = {1}
    /\ issued[1] = <<"GET /">>
    /\ returned[1] = "True"
    /\ node = 2
    /\ ReportedLower
    /\ Succeeded("upgrade_command")

(***************************************************************************)
(* C14. With the target 'latest', upgrade() issues the latest-version      *)
(* command once, to the first node of the list, before anything else is    *)
(* sent to any node; no node is processed while the target is still        *)
(* 'latest'; and from the moment the probe has answered, _version is not   *)
(* assigned again and the probe is not issued again.                       *)
(***************************************************************************)
ProbesTo(n) ==
    {i \in DOMAIN issued[n] : issued[n][i] = "latest_version_command"}

C14_ProbeStep ==
    /\ (pc = "upgrade" /\ _version = Latest) => pc' = "get_latest_version"
    /\ (pc = "upgrade" /\ _version # Latest) => pc' # "get_latest_version"
    /\ pc = "get_latest_version" =>
          issued' = [issued EXCEPT ![1] = <<"latest_version_command">>]
    /\ pc # "get_latest_version" =>
          /\ _version' = _version
          /\ \A n \in DOMAIN nodes : ProbesTo(n)' = ProbesTo(n)

C14_LatestResolvedOnce ==
    /\ [](/\ pc \in {"upgrade", "get_latest_version"} =>
                \A n \in DOMAIN nodes : ~Contacted(n)
          /\ \A n \in DOMAIN nodes : ProbesTo(n) \subseteq (IF n = 1 THEN {1} ELSE {})
          /\ node >= 1 => _version # Latest)
    /\ [][C14_ProbeStep]_vars

C14_Witness ==
    /\ Len(nodes) >= 2
    /\ node = 2
    /\ ProbesTo(1) = {1}
    /\ ProbesTo(2) = {}
    /\ returned[1] = "True"
    /\ HasVersionCall
    /\ _version = V3(1, 10, 0)

(***************************************************************************)
(* C15. A node that got the reboot command never gets the start command in *)
(* the same run; and once the reboot command was issued to the current     *)
(* node, or its start command returned exit status 0, the node is in       *)
(* wait_until_joined, then in wait_until_status_stable, and upgrade_node   *)
(* returns True only after both returned, the node that was up to date and *)
(* rebooted included (a wait ended by an exception apart).                 *)
(***************************************************************************)
AfterRestart ==
    \/ pc = "wait_until_joined" /\ waits[node] = <<>> /\ returned[node] = ""
    \/ /\ pc = "wait_until_status_stable"
       /\ waits[node] = <<"wait_until_joined">>
       /\ returned[node] = ""
    \/ /\ pc \in {"upgrade_node", "done"}
       /\ waits[node] = BothWaits
       /\ returned[node] = "True"
    \/ /\ pc = "done"
       /\ returned[node] = "raised"
       /\ polled[node] # {}

C15_WaitsAfterRebootOrStart ==
    /\ \A n \in DOMAIN nodes :
          Issued(n, "reboot") => ~Issued(n, "service_start_command")
    /\ (Called("reboot") \/ Succeeded("service_start_command")) => AfterRestart

C15_Witness ==
    /\ ReportedNotLower
    /\ Succeeded("upgrade_system_command")
    /\ Called("reboot")
    /\ ~Called("service_start_command")
    /\ polled[node] = {"_membership", "_up"}
    /\ waits[node] = BothWaits
    /\ returned[node] = "True"
    /\ ~_force_reboot

(***************************************************************************)
(* C16. Once the reboot decision of the current node is reached, the       *)
(* reboot command is issued exactly when the rule says so.  Upgrade path   *)
(* (stop, upgrade and, when enabled, OS upgrade succeeded): force_reboot,  *)
(* or reboot and (the upgrade command did not print 'Nothing to do' or the *)
(* OS upgrade did not print 'No packages marked for update').  Up-to-date  *)
(* node (after the OS upgrade, when enabled, succeeded): force_reboot, or  *)
(* reboot and the OS upgrade of this node changed something.               *)
(***************************************************************************)
CouchdbUpgradeChanged == Succeeded("upgrade_command") /\ ~UpgradeWasNoop

RebootDecided(at) == pc = at \/ Called("reboot")

C16_RebootRule ==
    /\ (Called("service_stop_command") /\ AllUpgradeStepsSucceeded) =>
          (RebootDecided("reboot_446") <=>
              (_force_reboot
                  \/ (_reboot /\ (CouchdbUpgradeChanged \/ SystemUpgradeChanged))))
    /\ (ReportedNotLower
            /\ (_upgrade_system => Succeeded("upgrade_system_command"))) =>
          (RebootDecided("reboot_418") <=>
              (_force_reboot \/ (_reboot /\ SystemUpgradeChanged)))

C16_Witness ==
    /\ ReportedLower
    /\ _reboot
    /\ ~_force_reboot
    /\ _upgrade_system
    /\ CouchdbUpgradeChanged
    /\ Succeeded("upgrade_system_command")
    /\ ~SystemUpgradeChanged
    /\ Called("reboot")
    /\ node = 2
    /\ Issued(1, "upgrade_system_command")

(***************************************************************************)
(* C17. A poll of wait_until_joined ends the loop without an exception     *)
(* only if its response has status 200 and an entry of all_nodes and an    *)
(* entry of cluster_nodes contain the node's address as a substring; then  *)
(* the stability wait follows.  After a poll that ends in a connection     *)
(* error, a status other than 200, or a 200 JSON answer that lacks the     *)
(* node in all_nodes or in cluster_nodes, the loop is still polling:       *)
(* upgrade_node has not returned, upgrade() has not ended and no command   *)
(* was issued.                                                             *)
(***************************************************************************)
ListsNode(r, key, a) ==
    /\ key \in DOMAIN r.data
    /\ \E i \in DOMAIN r.data[key] : IsSubstring(a, r.data[key][i])

Joined(r, a) ==
    /\ r.error = ""
    /\ r.status_code = 200
    /\ r.json
    /\ ListsNode(r, "all_nodes", a)
    /\ ListsNode(r, "cluster_nodes", a)

NotYetJoined(r, a) ==
    \/ r.error = "ConnectionError"
    \/ r.error = "" /\ r.status_code # 200
    \/ r.error = "" /\ r.status_code = 200 /\ r.json /\ ~Joined(r, a)

StillPolling(loop) ==
    /\ pc' = loop
    /\ result' = "running"
    /\ UNCHANGED <<returned, waits, issued, calls, node>>

C17_JoinStep ==
    pc = "wait_until_joined" =>
        /\ (pc' # "wait_until_joined" /\ result' # "raised") =>
              /\ Joined(response', nodes[node])
              /\ pc' = "wait_until_status_stable"
              /\ waits' = [waits EXCEPT ![node] = <<"wait_until_joined">>]
        /\ NotYetJoined(response', nodes[node]) =>
              StillPolling("wait_until_joined")

C17_JoinedOnlyWhenListed == [][C17_JoinStep]_vars

C17_Witness ==
    /\ pc = "wait_until_joined"
    /\ polls >= 1
    /\ response.error = ""
    /\ response.status_code = 200
    /\ response.json
    /\ ListsNode(response, "all_nodes", nodes[node])
    /\ ~ListsNode(response, "cluster_nodes", nodes[node])
    /\ "cluster_nodes" \in DOMAIN response.data

(***************************************************************************)
(* C18. A poll of wait_until_status_stable that ends in a connection error *)
(* makes upgrade_node return True at once; a poll that gets an answer      *)
(* makes it return True if the answer has status 200 and a body whose      *)
(* status is 'ok', and otherwise the loop polls again.                     *)
(***************************************************************************)
Healthy(r) ==
    /\ r.error = ""
    /\ r.status_code = 200
    /\ r.json
    /\ "status" \in DOMAIN r.data
    /\ r.data["status"] = "ok"

StableReturns ==
    /\ returned' = [returned EXCEPT ![node] = "True"]
    /\ waits' = [waits EXCEPT ![node] = BothWaits]
    /\ pc' = "upgrade_node"

C18_StableStep ==
    pc = "wait_until_status_stable" =>
        /\ response'.error = "ConnectionError" => StableReturns
        /\ response'.error = "" =>
              IF Healthy(response')
              THEN StableReturns
              ELSE StillPolling("wait_until_status_stable")

C18_StableOrPollsAgain == [][C18_StableStep]_vars

\* What holds of every poll: the same, apart from a 200 answer whose body is
\* not JSON or has no 'status', on which the loop ends in an exception.
C18_StableStepWithStatus ==
    pc = "wait_until_status_stable" =>
        /\ response'.error = "ConnectionError" => StableReturns
        /\ (response'.error = "" /\ ~wait_until_status_stable_raises(response')) =>
              IF Healthy(response')
              THEN StableReturns
              ELSE StillPolling("wait_until_status_stable")

C18_StableOrPollsAgainWithStatus == [][C18_StableStepWithStatus]_vars

(***************************************************************************)
(* C19. The wait loops have no retry bound and never yield a failure:      *)
(* while a wait loop is polling another poll that does not end it is       *)
(* always possible, no poll makes upgrade_node or upgrade() return False,  *)
(* and no node after the current one has been contacted.  Under FairSpec   *)
(* (every command returns, every polled node eventually reports membership *)
(* and then health or a connection error) upgrade() eventually ends.       *)
(***************************************************************************)
WaitLoops == {"wait_until_joined", "wait_until_status_stable"}

PollAgain ==
    \/ WaitUntilJoined /\ pc' = "wait_until_joined"
    \/ WaitUntilStatusStable /\ pc' = "wait_until_status_stable"

C19_PollStep ==
    pc \in WaitLoops =>
        /\ result' # "False"
        /\ \A n \in DOMAIN nodes : returned'[n] # "False"
        /\ pc' \in WaitLoops => (node' = node /\ issued' = issued)

C19_NoRetryBound ==
    pc \in WaitLoops =>
        /\ ENABLED PollAgain
        /\ \A n \in (node + 1)..Len(nodes) : ~Contacted(n)

C19_Terminates == <>(pc = "done" /\ result \in {"True", "False", "raised"})

C19_UnboundedPollingFairTermination ==
    /\ []C19_NoRetryBound
    /\ [][C19_PollStep]_vars
    /\ C19_Terminates

C19_Witness ==
    /\ pc = "done"
    /\ result = "True"
    /\ Len(nodes) >= 2
    /\ polls = 0
    /\ \A n \in DOMAIN nodes :
          /\ Issued(n, "service_start_command") \/ Issued(n, "reboot")
          /\ waits[n] = BothWaits

(***************************************************************************)
(* C21. The flags kept on the object do not carry an outcome from one node *)
(* to the next.  _rebooting is set only while the current node has been    *)
(* rebooted; after a successful upgrade or OS-upgrade command on the       *)
(* current node the matching flag tells what that command printed; a       *)
(* reboot of the current node is explained by force_reboot or by the       *)
(* output of the commands run on it; and a node returns True without a     *)
(* stop only because its own version answer was not lower.                 *)
(***************************************************************************)
C21_NoLeakBetweenNodes ==
    /\ _rebooting => Called("reboot")
    /\ Succeeded("upgrade_command") =>
          (_couchdb_upgrades_available <=> CouchdbUpgradeChanged)
    /\ Succeeded("upgrade_system_command") =>
          (_os_upgrades_available <=> SystemUpgradeChanged)
    /\ (Called("reboot") \/ pc \in {"reboot_418", "reboot_446"}) =>
          (_force_reboot
              \/ (_reboot /\ (CouchdbUpgradeChanged \/ SystemUpgradeChanged)))
    /\ (node >= 1 /\ returned[node] = "True"
            /\ ~Called("service_stop_command")) =>
          (HasVersionCall /\ ~ReportedLower)
    /\ (node >= 1 /\ returned[node] = "True"
            /\ Called("service_stop_command")
            /\ ~Called("service_start_command")) =>
          Called("reboot")

\* The second node is up to date and is neither rebooted nor upgraded, with
\* reboot on and _couchdb_upgrades_available still set by the upgrade of the
\* first node, which was rebooted.
C21_Witness ==
    /\ node = 2
    /\ _reboot
    /\ ~_force_reboot
    /\ ~_upgrade_system
    /\ _couchdb_upgrades_available
    /\ Issued(1, "reboot")
    /\ ReportedNotLower
    /\ issued[2] = <<"GET /">>
    /\ returned[2] = "True"

(***************************************************************************)
(* C22. In one run of upgrade() each of the stop, upgrade, OS-upgrade,     *)
(* reboot and start commands is issued at most once to each node of the    *)
(* list, the OS upgrade of the up-to-date branch and that of the upgrade   *)
(* branch never both; and the OS-upgrade command is issued only with       *)
(* upgrade_system on.                                                      *)
(***************************************************************************)
StepCommands ==
    {"service_stop_command", "upgrade_command", "upgrade_system_command",
     "reboot", "service_start_command"}

TimesIssued(n, c) ==
    Cardinality({i \in DOMAIN issued[n] : issued[n][i] = c})

C22_EachStepAtMostOnce ==
    \A n \in DOMAIN nodes :
        /\ \A c \in StepCommands : TimesIssued(n, c) <= 1
        /\ Issued(n, "upgrade_system_command") => _upgrade_system

C22_Witness ==
    /\ Len(nodes) >= 2
    /\ issued[1] = <<"GET /", "service_stop_command", "upgrade_command",
                     "upgrade_system_command", "service_start_command">>
    /\ issued[2] = <<"GET /", "upgrade_system_command", "reboot">>
    /\ returned[2] = "True"
    /\ ~_force_reboot

=============================================================================
